---- MODULE Spec2Model ----
(***************************************************************************)
(* JobFy: the scrape orchestration of backend/main.py (start_scrape,       *)
(* run_scrape) over the adapters of scrapers/, with the jobs and           *)
(* scrape_logs tables of backend/models.py.                                *)
(*                                                                         *)
(* The tables hold COMMITTED rows: what any other session (a reader, a     *)
(* concurrent run) can see.  What a run has added to its own session and   *)
(* not yet committed is in the task's `pending`.  A commit that raises     *)
(* rolls the session back.                                                 *)
(***************************************************************************)
EXTENDS Integers, Sequences, FiniteSets, TLC

(* ------------------------------ bounds --------------------------------- *)
MaxRuns == 2        \* run_scrape executions, and so the records too
MaxBatch == 2       \* offers one scrape call returns
MaxFaults == 2      \* store / constructor / close failures injected

(* ------------------------- program constants --------------------------- *)
SCRAPERS == {"remoteok", "infojobs", "linkedin", "indeed", "tecnoempleo"}

SITES_CONFIG ==
  [s \in SCRAPERS |->
     CASE s = "remoteok"    -> [name |-> "RemoteOK", requires_auth |-> FALSE,
                                base_url |-> <<"https:", "//remoteok.com">>]
       [] s = "infojobs"    -> [name |-> "InfoJobs", requires_auth |-> TRUE,
                                base_url |-> <<"https:", "//www.infojobs.net">>]
       [] s = "linkedin"    -> [name |-> "LinkedIn", requires_auth |-> TRUE,
                                base_url |-> <<"https:", "//www.linkedin.com">>]
       [] s = "indeed"      -> [name |-> "Indeed", requires_auth |-> FALSE,
                                base_url |-> <<"https:", "//www.indeed.com">>]
       [] s = "tecnoempleo" -> [name |-> "Tecnoempleo", requires_auth |-> FALSE,
                                base_url |-> <<"https:", "//www.tecnoempleo.com">>]]

AuthSites == {s \in SCRAPERS : SITES_CONFIG[s].requires_auth}

(* ------------------------------ inputs --------------------------------- *)
Keywords == {"python"}
Locations == {""}
Links == {"https://jobs.example/1"}

\* s.strip(), on the strings the model uses
Strip(s) ==
  CASE s = "RemoteOK " -> "RemoteOK"
    [] s = " "         -> ""
    [] s = " react"    -> "react"
    [] s = "python "   -> "python"
    [] s = " Go"       -> "Go"
    [] OTHER           -> s

\* s.lower(), on the strings the model uses
Lower(s) ==
  CASE s = "RemoteOK" -> "remoteok"
    [] s = "Python"   -> "python"
    [] s = "Go"       -> "go"
    [] s = "Dev"      -> "dev"
    [] s = "Acme"     -> "acme"
    [] s = "Initech"  -> "initech"
    [] s = "N/A"      -> "n/a"
    [] OTHER          -> s

RECURSIVE SiteList(_)
\* [s.strip().lower() for s in sites.split(",") if s.strip()]
SiteList(raw) ==
  IF raw = <<>> THEN <<>>
  ELSE IF Strip(Head(raw)) # ""
       THEN <<Lower(Strip(Head(raw)))>> \o SiteList(Tail(raw))
       ELSE SiteList(Tail(raw))

\* mutant: the list is not validated
InvalidSitesUnchecked(site_list) == <<>>

\* [s for s in site_list if s not in SCRAPERS]
InvalidSites(site_list) == SelectSeq(site_list, LAMBDA s : s \notin SCRAPERS)

\* values of the `sites` query parameter, split at the commas
RawInputs ==
  { <<"RemoteOK ">>,
    <<"infojobs", " ", "RemoteOK ">>,
    <<" ">>,
    <<"bogus">>,
    <<"RemoteOK ", "bogus">> }

(* ------------------------------ values --------------------------------- *)
NullMsg == [isnull |-> TRUE, parts |-> <<>>]
Msg(parts) == [isnull |-> FALSE, parts |-> parts]
\* datetime.utcnow() is modelled by naming the moment: Started(id) is when
\* record id was inserted, Finished(t) when execution t wrote its end
NullTime == <<"null">>
Started(id) == <<"started", id>>
Finished(t) == <<"finished", t>>
Terminal == {"completed", "failed"}

VARIABLES
  scrape_logs,   \* committed rows of table scrape_logs; the id is the index
  jobs,          \* committed rows of table jobs, in insertion order
  tasks,         \* run_scrape executions: arguments, position, locals
  credentials,   \* sites whose credentials the environment provides
  response,      \* the last HTTP response of start_scrape
  trail,         \* history: the statuses committed to each record, in order
  faults,        \* failures injected so far
  call           \* the last call of a function of the adapters or of get_stats

vars == <<scrape_logs, jobs, tasks, credentials, response, trail, faults, call>>

NoResponse == [status |-> 0, log_id |-> 0]
NoCall == [op |-> "none"]

Init ==
  /\ scrape_logs = <<>>
  /\ jobs = <<>>
  /\ tasks = <<>>
  /\ credentials \in {{}, AuthSites}
  /\ response = NoResponse
  /\ trail = <<>>
  /\ faults = 0
  /\ call = NoCall

(* --------------------------- start_scrape ------------------------------ *)
\* mutant: the record is created already running
NewLogRunning(id, site_list, keyword, location) ==
  [keyword |-> keyword, location |-> location, sites |-> site_list,
   jobs_found |-> 0, status |-> "running", started_at |-> Started(id),
   completed_at |-> NullTime, error_message |-> NullMsg]

\* ScrapeLog(keyword, location, sites, status="pending"); db.add; db.commit
NewLog(id, site_list, keyword, location) ==
  [keyword |-> keyword, location |-> location, sites |-> site_list,
   jobs_found |-> 0, status |-> "pending", started_at |-> Started(id),
   completed_at |-> NullTime, error_message |-> NullMsg]

\* background_tasks.add_task(run_scrape, db, log.id, site_list, keyword, location)
NewTask(log_id, site_list, keyword, location) ==
  [log_id |-> log_id, sites |-> site_list, keyword |-> keyword,
   location |-> location, pc |-> "queued", i |-> 1,
   offers |-> <<>>, pending |-> <<>>, total_jobs |-> 0, errors |-> <<>>,
   exc |-> "",
   \* history of this execution
   calls |-> 0, invoked |-> <<>>, raised |-> 0, skipped |-> 0, softFailed |-> {},
   failedAt |-> <<>>, authFailed |-> {}, fetched |-> {}, parsed |-> {},
   persisted |-> 0, fault |-> FALSE]

\* run_scrape has returned, or an exception has left it: its locals are gone
Return(task, pc) ==
  [NewTask(task.log_id, task.sites, task.keyword, task.location)
     EXCEPT !.pc = pc, !.calls = task.calls, !.invoked = task.invoked]

Rejects(raw) == SiteList(raw) = <<>> \/ InvalidSites(SiteList(raw)) # <<>>

StartScrape(raw, keyword, location) ==
  IF Rejects(raw)
  THEN /\ response' = [status |-> 400, log_id |-> 0]
       /\ UNCHANGED <<scrape_logs, jobs, tasks, credentials, call, trail, faults>>
  ELSE /\ Len(tasks) < MaxRuns
       /\ scrape_logs' = Append(scrape_logs, NewLog(Len(scrape_logs) + 1, SiteList(raw), keyword, location))
       /\ trail' = Append(trail, <<"pending">>)
       /\ tasks' = Append(tasks, NewTask(Len(scrape_logs) + 1, SiteList(raw),
                                         keyword, location))
       /\ response' = [status |-> 200, log_id |-> Len(scrape_logs) + 1]
       /\ UNCHANGED <<jobs, credentials, call, faults>>

(* ----------------------------- adapters -------------------------------- *)
Batches == UNION {[1..n -> Links] : n \in 0..MaxBatch}

\* BaseScraper.login: True without auth; False without credentials; otherwise
\* whatever _perform_login answers
LoginResults(site) ==
  IF ~SITES_CONFIG[site].requires_auth THEN {TRUE}
  ELSE IF site \notin credentials THEN {FALSE}
  ELSE {TRUE, FALSE}

\* _perform_login of InfoJobs and LinkedIn: with credentials present the login
\* form is posted by session.post(url, data=..., allow_redirects=True), with
\* no timeout argument: the call returns only when the server answers
LoginPostMayBlock(site) ==
  SITES_CONFIG[site].requires_auth /\ site \in credentials

\* mutant: the offers keep the source they were built with
TagSourceDefault(site, links) ==
  [j \in 1..Len(links) |-> [apply_link |-> links[j], source |-> "N/A"]]

\* for job in jobs: job.source = self.name
TagSource(site, links) ==
  [j \in 1..Len(links) |-> [apply_link |-> links[j],
                            source |-> SITES_CONFIG[site].name]]

\* mutant: the search URL is fetched whatever login answered
FetchesAnyway(logged_in) == TRUE

\* base.py 158-169: `if not self.login(): return []` comes before fetch_page
FetchesAfterLogin(logged_in) == logged_in

\* BaseScraper.scrape / RemoteOKScraper.scrape: what one call can produce.
\* A failed login and a failed fetch both RETURN the empty list; only an
\* error in parsing leaves the call as an exception.  "blocked" is the call
\* that never returns.
ScrapeOutcomes(site) ==
  LET auth == IF SITES_CONFIG[site].requires_auth THEN LoginResults(site)
              ELSE {TRUE}
  IN  {[kind |-> "auth_failed", offers |-> <<>>, fetched |-> FetchesAfterLogin(a),
        parsed |-> FALSE] : a \in {b \in auth : ~b}}
      \cup
      {[kind |-> "blocked", offers |-> <<>>, fetched |-> FALSE, parsed |-> FALSE] :
         a \in {b \in {TRUE} : LoginPostMayBlock(site)}}
      \cup
      UNION {{[kind |-> "fetch_failed", offers |-> <<>>,
               fetched |-> FetchesAfterLogin(a), parsed |-> FALSE],
              [kind |-> "raised", offers |-> <<>>,
               fetched |-> FetchesAfterLogin(a), parsed |-> TRUE]}
             \cup {[kind |-> "ok", offers |-> TagSource(site, b),
                    fetched |-> FetchesAfterLogin(a), parsed |-> TRUE] : b \in Batches} :
             a \in {b \in auth : b}}

(* ------------------------------ session -------------------------------- *)
\* the session flushes its pending rows before it runs a query
Autoflush == TRUE

\* mutant: only the rows this session has added are looked at
ExistingInSessionOnly(pending, link) ==
  \E n \in 1..Len(pending) : pending[n].apply_link = link

\* db.query(Job).filter(Job.apply_link == link).first()
Existing(pending, link) ==
  \/ \E n \in 1..Len(jobs) : jobs[n].apply_link = link
  \/ Autoflush /\ \E n \in 1..Len(pending) : pending[n].apply_link = link

\* mutant: a commit that raises leaves the row written
CommitRowNoRollback(ok, before, after) == after

\* db.commit() on a changed row: written, or rolled back when it raises
CommitRow(ok, before, after) == IF ok THEN after ELSE before

\* the statuses a record has held, one entry per write
Written(id, before, after, ok) ==
  IF ok \/ after # before THEN [trail EXCEPT ![id] = Append(@, after.status)]
  ELSE trail

\* db.commit() either succeeds or raises
CommitOutcomes == IF faults < MaxFaults THEN {TRUE, FALSE} ELSE {TRUE}
\* scraper_class() and scraper.close() either return or raise
CallOutcomes == IF faults < MaxFaults THEN {TRUE, FALSE} ELSE {TRUE}

(* ----------------------------- run_scrape ------------------------------ *)
Active(t) == tasks[t].pc \notin {"queued", "done", "escaped"}

\* log.status = "running"
MarkRunning(row) == [row EXCEPT !.status = "running"]

\* lines 194-199
RunBegin(t) ==
  /\ t \in DOMAIN tasks
  /\ tasks[t].pc = "queued"
  /\ LET id == tasks[t].log_id IN
     IF id \notin 1..Len(scrape_logs)
     THEN /\ tasks' = [tasks EXCEPT ![t] = Return(@, "done")]
          /\ UNCHANGED <<scrape_logs, trail, faults>>
     ELSE \E ok \in CommitOutcomes :
            LET row == CommitRow(ok, scrape_logs[id], MarkRunning(scrape_logs[id])) IN
            /\ scrape_logs' = [scrape_logs EXCEPT ![id] = row]
            /\ trail' = Written(id, scrape_logs[id], row, ok)
            /\ tasks' = [tasks EXCEPT ![t] =
                           IF ok THEN [@ EXCEPT !.pc = "loop"]
                           ELSE Return(@, "escaped")]
            /\ faults' = IF ok THEN faults ELSE faults + 1
  /\ UNCHANGED <<jobs, credentials, call, response>>

\* mutant: the loop does not move on to the next site
ClosedStaysOnSite(task, ok) ==
  IF ok
  THEN [task EXCEPT !.skipped = 0, !.pc = "loop"]
  ELSE [task EXCEPT !.pc = "except", !.exc = "close error", !.fault = TRUE]

\* lines 235-236, `finally: scraper.close()`: on to the next site, or the
\* error of close() on its way to the handler of line 245
Closed(task, ok) ==
  IF ok
  THEN [task EXCEPT !.i = @ + 1, !.skipped = 0, !.pc = "loop"]
  ELSE [task EXCEPT !.pc = "except", !.exc = "close error", !.fault = TRUE]

\* mutant: the error is swallowed without being appended
CaughtNotRecorded(task, e) == [task EXCEPT !.offers = <<>>]

\* lines 233-234: errors.append(f"{site_name}: {str(e)}")
Caught(task, e) ==
  [task EXCEPT !.errors = Append(@, <<task.sites[task.i], e>>),
               !.offers = <<>>]

\* lines 205-214: the next site of the list, its adapter constructed and its
\* scrape called; lines 233-236 when the call raises
Scrape(t) ==
  /\ t \in DOMAIN tasks
  /\ tasks[t].pc = "loop"
  /\ tasks[t].i <= Len(tasks[t].sites)
  /\ LET site == tasks[t].sites[tasks[t].i] IN
     IF site \notin SCRAPERS
     THEN /\ tasks' = [tasks EXCEPT
                         ![t].errors = Append(@, <<"Unknown site", site>>),
                         ![t].i = @ + 1]
          /\ UNCHANGED faults
     ELSE \E made \in CallOutcomes :
            IF ~made
            THEN /\ tasks' = [tasks EXCEPT ![t].pc = "except",
                                           ![t].exc = "constructor error",
                                           ![t].fault = TRUE]
                 /\ faults' = faults + 1
            ELSE \E out \in ScrapeOutcomes(site) :
                   LET called == [tasks[t] EXCEPT !.calls = @ + 1,
                                                  !.invoked = Append(@, site)] IN
                   IF out.kind = "raised"
                   THEN \E ok \in CallOutcomes :
                          /\ tasks' = [tasks EXCEPT ![t] =
                               Closed(Caught([called EXCEPT !.raised = @ + 1,
                                                    !.failedAt = Append(@, called.i),
                                                    !.fetched = IF out.fetched THEN @ \cup {called.i} ELSE @,
                                                    !.parsed = IF out.parsed THEN @ \cup {called.i} ELSE @],
                                             "scrape error"), ok)]
                          /\ faults' = IF ok THEN faults ELSE faults + 1
                   ELSE IF out.kind = "blocked"
                   THEN /\ tasks' = [tasks EXCEPT ![t] =
                                       [called EXCEPT !.pc = "blocked"]]
                        /\ UNCHANGED faults
                   ELSE /\ tasks' = [tasks EXCEPT ![t] =
                             [called EXCEPT
                                !.offers = out.offers,
                                !.softFailed = IF out.kind = "ok" THEN @
                                               ELSE @ \cup {called.i},
                                !.authFailed = IF out.kind = "auth_failed"
                                               THEN @ \cup {called.i} ELSE @,
                                !.fetched = IF out.fetched THEN @ \cup {called.i} ELSE @,
                                !.parsed = IF out.parsed THEN @ \cup {called.i} ELSE @,
                                !.pc = "offers"]]
                        /\ UNCHANGED faults
  /\ UNCHANGED <<scrape_logs, jobs, credentials, call, response, trail>>

\* lines 216-230: one turn of `for job in jobs`
HandleOffer(t) ==
  /\ t \in DOMAIN tasks
  /\ tasks[t].pc = "offers"
  /\ tasks[t].offers # <<>>
  /\ LET job == Head(tasks[t].offers) IN
     IF ~Existing(tasks[t].pending, job.apply_link)
     THEN tasks' = [tasks EXCEPT ![t].offers = Tail(@),
                                 ![t].pending = Append(@, job),
                                 ![t].total_jobs = @ + 1]
     ELSE tasks' = [tasks EXCEPT ![t].offers = Tail(@), ![t].skipped = @ + 1]
  /\ UNCHANGED <<scrape_logs, jobs, credentials, call, response, trail, faults>>

\* lines 232-236: the per-source db.commit(), then scraper.close()
CommitSource(t) ==
  /\ t \in DOMAIN tasks
  /\ tasks[t].pc = "offers"
  /\ tasks[t].offers = <<>>
  /\ \E ok \in CommitOutcomes :
       IF ok
       THEN \E cl \in CallOutcomes :
              /\ jobs' = jobs \o tasks[t].pending
              /\ tasks' = [tasks EXCEPT ![t] =
                   Closed([@ EXCEPT !.pending = <<>>,
                                    !.persisted = @ + Len(tasks[t].pending)], cl)]
              /\ faults' = IF cl THEN faults ELSE faults + 1
       ELSE /\ tasks' = [tasks EXCEPT ![t] =
                 Closed(Caught([@ EXCEPT !.pending = <<>>,
                                  !.failedAt = Append(@, tasks[t].i)],
                        "commit error"), TRUE)]
            /\ faults' = faults + 1
            /\ UNCHANGED jobs
  /\ UNCHANGED <<scrape_logs, credentials, call, response, trail>>

\* lines 238-242
MarkCompleted(row, total_jobs, errors, now) ==
  [row EXCEPT !.status = "completed",
              !.jobs_found = total_jobs,
              !.completed_at = now,
              !.error_message = IF errors # <<>> THEN Msg(errors) ELSE @]

\* mutant: the handler does not stamp completed_at
MarkFailedNoTimestamp(row, exc, now) ==
  [row EXCEPT !.status = "failed", !.error_message = Msg(<<exc>>)]

\* lines 246-248
MarkFailed(row, exc, now) ==
  [row EXCEPT !.status = "failed",
              !.error_message = Msg(<<exc>>),
              !.completed_at = now]

\* lines 238-243, and the entry to the handler of 245 when the commit raises
Finish(t) ==
  /\ t \in DOMAIN tasks
  /\ tasks[t].pc = "loop"
  /\ tasks[t].i > Len(tasks[t].sites)
  /\ LET id == tasks[t].log_id IN
     \E ok \in CommitOutcomes :
       LET row == CommitRow(ok, scrape_logs[id],
                    MarkCompleted(scrape_logs[id], tasks[t].total_jobs,
                                  tasks[t].errors, Finished(t))) IN
       /\ scrape_logs' = [scrape_logs EXCEPT ![id] = row]
       /\ trail' = Written(id, scrape_logs[id], row, ok)
       /\ tasks' = [tasks EXCEPT ![t] =
                      IF ok THEN Return(@, "done")
                      ELSE [@ EXCEPT !.pc = "except", !.exc = "commit error",
                                     !.fault = TRUE]]
       /\ faults' = IF ok THEN faults ELSE faults + 1
  /\ UNCHANGED <<jobs, credentials, call, response>>

\* lines 245-249
Except(t) ==
  /\ t \in DOMAIN tasks
  /\ tasks[t].pc = "except"
  /\ LET id == tasks[t].log_id IN
     \E ok \in CommitOutcomes :
       LET row == CommitRow(ok, scrape_logs[id],
                            MarkFailed(scrape_logs[id], tasks[t].exc, Finished(t))) IN
       /\ scrape_logs' = [scrape_logs EXCEPT ![id] = row]
       /\ trail' = Written(id, scrape_logs[id], row, ok)
       /\ tasks' = [tasks EXCEPT ![t] =
                      IF ok THEN Return(@, "done") ELSE Return(@, "escaped")]
       /\ faults' = IF ok THEN faults ELSE faults + 1
  /\ UNCHANGED <<jobs, credentials, call, response>>

(* -------------------------------- links -------------------------------- *)
\* A link is written as the sequence of its parts: "https://h.example/p?q" is
\* <<"https:", "//h.example", "/p", "?q">>, "/p" is <<"/p">>, "" is <<>>.
NA == <<"N/A">>

\* hrefs a card or a feed entry may carry
Hrefs ==
  { <<"/jobs/123">>,
    <<"/jobs/123", "?from=serp">>,
    <<"jobs/123">>,
    <<"//cdn.example", "/jobs/123">>,
    <<"https:", "//jobs.example", "/view/9">>,
    <<"https:", "//jobs.example", "/view/9", "?trk=abc">>,
    <<"javascript:", "void(0)">>,
    <<"#">>,
    <<>> }

\* href.startswith("/")
StartsWithSlash(href) ==
  href # <<>> /\ Head(href) \in
    {"/jobs/123", "//cdn.example", "/desarrollador-python-madrid-123456",
     "/java-senior-barcelona-654321", "/REGISTRO-candidato-nuevo-2024",
     "/acme-consulting-trabajo", "/dev-1", "/ofertasdestacadasdelasemana",
     "/oferta-empleo-tecnologia-"}

\* href.startswith("http")
StartsWithHttp(href) ==
  href # <<>> /\ Head(href) \in {"https:", "http:"}

HasScheme(href) ==
  href # <<>> /\ Head(href) \in {"https:", "http:", "javascript:"}

\* the link is an absolute URL: scheme http(s), then a host
IsAbsoluteUrl(link) ==
  /\ Len(link) >= 2
  /\ link[1] \in {"https:", "http:"}
  /\ link[2] \in {"//remoteok.com", "//www.infojobs.net", "//www.linkedin.com",
                  "//www.indeed.com", "//www.tecnoempleo.com", "//jobs.example",
                  "//cdn.example", "//es.indeed.com", "//mx.indeed.com",
                  "//ar.indeed.com"}

\* mutant: the href is taken as it is written
urljoinKeepsHref(base, href) == href

\* urllib.parse.urljoin(base, href), for a base without a path
urljoin(base, href) ==
  IF href = <<>> \/ href = <<"#">> THEN base
  ELSE IF HasScheme(href) THEN href
  ELSE IF Head(href) = "//cdn.example" THEN <<base[1]>> \o href
  ELSE IF StartsWithSlash(href) THEN base \o href
  ELSE IF Head(href) = "jobs/123" THEN base \o <<"/jobs/123">> \o Tail(href)
  ELSE base \o href

\* href.split("?")[0]
BeforeQuery(href) ==
  SelectSeq(href, LAMBDA part : part \notin {"?from=serp", "?trk=abc"})

(* ------------------------------ RemoteOK ------------------------------- *)
MaxFeed == 2     \* entries of a feed, before a run of equal entries
MaxOver == 1     \* how far a run of equal entries goes beyond the limit
FeedLimit == 50  \* jobs[:50]

\* Text is written as the sequence of its words; f"{a} {b}" is a \o b.
\* entries of the feed; slug <<>> and url <<>> stand for a missing key
MetaItem ==
  [legal |-> TRUE, position |-> <<>>, company |-> <<>>, tags |-> <<>>,
   tags_are_strings |-> TRUE, slug |-> <<>>, url |-> <<>>]

PythonDev ==
  [legal |-> FALSE, position |-> <<"Python", "Dev">>, company |-> <<"Acme">>,
   tags |-> <<>>, tags_are_strings |-> TRUE,
   slug |-> <<"/python-dev-acme">>, url |-> <<>>]

GoDev ==
  [legal |-> FALSE, position |-> <<"Go", "Dev">>, company |-> <<"Initech">>,
   tags |-> <<"Go">>, tags_are_strings |-> TRUE,
   slug |-> <<>>, url |-> <<"/l/4">>]

FeedItems ==
  { MetaItem,
    PythonDev,
    [legal |-> FALSE, position |-> <<"Dev">>, company |-> <<"Initech">>,
     tags |-> <<"python">>, tags_are_strings |-> TRUE,
     slug |-> <<>>, url |-> <<>>],
    GoDev,
    [legal |-> FALSE, position |-> <<>>, company |-> <<"Acme">>,
     tags |-> <<"Python">>, tags_are_strings |-> TRUE,
     slug |-> <<"/untitled">>, url |-> <<>>],
    [legal |-> FALSE, position |-> <<"Python", "Dev">>, company |-> <<"Acme">>,
     tags |-> <<"Python">>, tags_are_strings |-> FALSE,
     slug |-> <<"/python-dev-2">>, url |-> <<>>] }

FeedKeywords == { <<>>, <<"python">>, <<"Python">>, <<"dev", "acme">> }

Repeat(item, k) == [n \in 1..k |-> item]

Feeds ==
  { head \o body \o Repeat(PythonDev, k) :
      head \in {<<>>, <<MetaItem>>},
      body \in UNION {[1..n -> FeedItems] : n \in 0..MaxFeed},
      k \in {0, 1} \cup ((FeedLimit - 1)..(FeedLimit + MaxOver)) }

LowerText(text) == [n \in DOMAIN text |-> Lower(text[n])]

\* needle in haystack, on texts
Contains(haystack, needle) ==
  \E at \in 0..(Len(haystack) - Len(needle)) :
    \A n \in DOMAIN needle : haystack[at + n] = needle[n]

\* ", ".join(tags_list)
JoinTags(tags_list) ==
  [n \in 1..(2 * Len(tags_list) - 1) |->
     IF n % 2 = 1 THEN tags_list[(n + 1) \div 2] ELSE ","]

\* RemoteOKScraper._extract_job; NoJob is None
NoJob == [none |-> TRUE]

ExtractFeedJob(item) ==
  IF item.position = <<>> THEN NoJob
  ELSE IF item.tags # <<>> /\ ~item.tags_are_strings THEN NoJob
  ELSE [none |-> FALSE,
        job_title |-> item.position,
        company |-> IF item.company = <<>> THEN NA ELSE item.company,
        tags |-> IF item.tags # <<>> THEN JoinTags(item.tags) ELSE NA,
        apply_link |-> IF item.slug # <<>>
                       THEN SITES_CONFIG["remoteok"].base_url \o item.slug
                       ELSE IF item.url # <<>> THEN item.url ELSE NA]

\* mutant: the offer's text is compared as it is spelled
KeywordMatchesCaseSensitive(job, keyword_lower) ==
  Contains(job.job_title \o job.company \o job.tags, keyword_lower)

\* keyword_lower not in f"{job.job_title} {job.company} {job.tags}".lower()
KeywordMatches(job, keyword_lower) ==
  Contains(LowerText(job.job_title \o job.company \o job.tags), keyword_lower)

\* lines 93-105 for one item
KeepsItem(item, keyword_lower) ==
  /\ ~item.legal
  /\ ~ExtractFeedJob(item).none
  /\ keyword_lower # <<>> => KeywordMatches(ExtractFeedJob(item), keyword_lower)

\* RemoteOKScraper._parse_api_response
ParseApiResponse(data, keyword) ==
  LET keyword_lower == IF keyword # <<>> THEN LowerText(keyword) ELSE <<>>
      kept == SelectSeq(data, LAMBDA item : KeepsItem(item, keyword_lower))
      found == [n \in DOMAIN kept |-> ExtractFeedJob(kept[n])]
  IN  SubSeq(found, 1, IF Len(found) < FeedLimit THEN Len(found) ELSE FeedLimit)

CallParseApiResponse(data, keyword) ==
  /\ call = NoCall
  /\ call' = [op |-> "_parse_api_response", arg |-> [data |-> data, keyword |-> keyword],
              result |-> ParseApiResponse(data, keyword)]
  /\ UNCHANGED <<scrape_logs, jobs, tasks, credentials, response, trail, faults>>

(* --------------------------- markup adapters --------------------------- *)
MaxCards == 2    \* nodes one selector matches

MarkupSites == {"indeed", "infojobs", "linkedin"}

\* A card: the text of its title element (<<>> when there is none or it is
\* empty), whether the element the adapter reads the link from is there
\* (Indeed, LinkedIn: an <a> of the card; InfoJobs: the title element being an
\* <a>), the href of that element (<<>> for "" or no attribute), the company
\* element (there or not, and its text), and whether reading the card raises
MaxNodes == 3    \* nodes of a page whose first selector matches

NoElem == [elem |-> FALSE, text |-> <<>>]
Elem(text) == [elem |-> TRUE, text |-> text]
CompanyElems == {NoElem, Elem(<<>>), Elem(<<"Acme">>)}

Cards ==
  { c \in [title : {<<>>, <<"Python", "Dev">>}, anchor : BOOLEAN, href : Hrefs,
           company : CompanyElems, raises : BOOLEAN] :
      ~c.anchor => c.href = <<>> }

\* IndeedScraper._extract_job, lines 120-132
IndeedLink(card) ==
  IF card.anchor /\ card.href # <<>>
  THEN IF StartsWithSlash(card.href)
       THEN urljoin(SITES_CONFIG["indeed"].base_url, card.href)
       ELSE IF StartsWithHttp(card.href) THEN card.href ELSE NA
  ELSE NA

\* InfoJobsScraper._extract_job, lines 139-143
InfoJobsLink(card) ==
  IF card.anchor
  THEN IF card.href # <<>>
       THEN urljoin(SITES_CONFIG["infojobs"].base_url, card.href)
       ELSE NA
  ELSE NA

\* LinkedInScraper._extract_job, lines 199-210
LinkedInLink(card) ==
  IF card.anchor
  THEN IF StartsWithHttp(card.href) THEN BeforeQuery(card.href)
       ELSE urljoin(SITES_CONFIG["linkedin"].base_url, card.href)
  ELSE NA

ApplyLink(site, card) ==
  CASE site = "indeed"   -> IndeedLink(card)
    [] site = "infojobs" -> InfoJobsLink(card)
    [] site = "linkedin" -> LinkedInLink(card)

\* _extract_job of a markup adapter: None without a title
ExtractJob(site, card) ==
  IF card.raises THEN NoJob
  ELSE IF card.title = <<>> THEN NoJob
  ELSE [none |-> FALSE, job_title |-> card.title,
        company |-> IF card.company.elem THEN card.company.text ELSE NA,
        apply_link |-> ApplyLink(site, card)]

\* the selectors of parse_job_listings, in the order they are tried
Selectors(site) ==
  CASE site = "indeed" ->
         << "div.job_seen_beacon", "div.jobsearch-SerpJobCard", "[data-jk]",
            "td.resultContent" >>
    [] site = "infojobs" ->
         << "div.ij-OfferCardContent", "li.ij-OfferCard",
            "[data-testid='offer-card']" >>
    [] site = "linkedin" ->
         << "div.base-card", "li.jobs-search-results__list-item", "[data-job-id]" >>

\* cards that appear in the pages: one that yields an offer, one that does not
PageCards ==
  { [title |-> <<"Python", "Dev">>, anchor |-> TRUE, href |-> <<"/jobs/123">>,
     company |-> Elem(<<"Acme">>), raises |-> FALSE],
    [title |-> <<>>, anchor |-> FALSE, href |-> <<>>,
     company |-> NoElem, raises |-> FALSE] }

CardLists == UNION {[1..n -> PageCards] : n \in 0..MaxCards}

\* a page: for each selector, the nodes it matches
Pages(site) == [DOMAIN Selectors(site) -> CardLists]

RECURSIVE JobCardsFrom(_, _)
\* job_cards = <selector k>; if not job_cards: job_cards = <selector k+1>; ...
JobCardsFrom(page, k) ==
  IF k = Len(page) \/ page[k] # <<>> THEN page[k]
  ELSE JobCardsFrom(page, k + 1)

\* mutant: the chain goes on until a selector's nodes yield an offer
JobCardsFirstYielding(site, page) ==
  LET yielding == {k \in DOMAIN page :
                     \E n \in DOMAIN page[k] : ~ExtractJob(site, page[k][n]).none}
  IN  IF yielding = {} THEN <<>>
      ELSE page[CHOOSE k \in yielding : \A j \in yielding : k <= j]

JobCards(site, page) == JobCardsFrom(page, 1)

\* nodes of the pages whose first selector matches: a full card, a card with
\* nothing but its title, a card without a title, a card whose reading raises
NodeCards ==
  { [title |-> <<"Python", "Dev">>, anchor |-> TRUE, href |-> <<"/jobs/123">>,
     company |-> Elem(<<"Acme">>), raises |-> FALSE],
    [title |-> <<"Go", "Dev">>, anchor |-> FALSE, href |-> <<>>,
     company |-> NoElem, raises |-> FALSE],
    [title |-> <<>>, anchor |-> TRUE, href |-> <<"/jobs/123">>,
     company |-> Elem(<<"Acme">>), raises |-> FALSE],
    [title |-> <<"Python", "Dev">>, anchor |-> TRUE, href |-> <<"/jobs/123">>,
     company |-> Elem(<<"Acme">>), raises |-> TRUE] }

NodePages(site) ==
  { [k \in DOMAIN Selectors(site) |-> IF k = 1 THEN nodes ELSE <<>>] :
      nodes \in UNION {[1..n -> NodeCards] : n \in 1..MaxNodes} }

\* mutant: the listing is given up at the first node that yields no offer
ParseJobListingsUntilDrop(site, page) ==
  LET job_cards == JobCards(site, page)
      found == [n \in DOMAIN job_cards |-> ExtractJob(site, job_cards[n])]
      drops == {n \in DOMAIN found : found[n].none}
  IN  IF drops = {} THEN found
      ELSE SubSeq(found, 1, (CHOOSE n \in drops : \A m \in drops : n <= m) - 1)

\* parse_job_listings: for card in job_cards: job = _extract_job(card); if job: ...
ParseJobListings(site, page) ==
  LET job_cards == JobCards(site, page)
      found == [n \in DOMAIN job_cards |-> ExtractJob(site, job_cards[n])]
  IN  SelectSeq(found, LAMBDA job : ~job.none)

CallParseJobListings(site, page) ==
  /\ call = NoCall
  /\ call' = [op |-> "parse_job_listings", arg |-> [site |-> site, page |-> page],
              result |-> ParseJobListings(site, page)]
  /\ UNCHANGED <<scrape_logs, jobs, tasks, credentials, response, trail, faults>>

CallExtractJob(site, card) ==
  /\ call = NoCall
  /\ call' = [op |-> "_extract_job", arg |-> [site |-> site, card |-> card],
              result |-> ExtractJob(site, card)]
  /\ UNCHANGED <<scrape_logs, jobs, tasks, credentials, response, trail, faults>>

(* ----------------------------- Tecnoempleo ----------------------------- *)
MaxLinks == 2       \* hyperlinks of a page, before a run of generated ones
MaxBeyond == 1      \* how far a run of hyperlinks goes beyond the limit
HarvestLimit == 30  \* jobs[:30]
MinText == 15       \* len(text) < 15
MaxText == 80       \* len(text) > 80
MinPath == 15       \* len(href_path) > 15

OfferPath == "/desarrollador-python-madrid-123456"

\* hrefs of the hyperlinks of a page, as links
TecnoHrefs ==
  { <<OfferPath>>,
    <<"https:", "//www.tecnoempleo.com", OfferPath>>,
    <<"/java-senior-barcelona-654321">>,
    <<"/REGISTRO-candidato-nuevo-2024">>,
    <<"/acme-consulting-trabajo", "/">>,
    <<"https:", "//other.example", OfferPath>>,
    <<"/dev-1">>,
    <<"/ofertasdestacadasdelasemana">> }

\* any(x in href.lower() for x in exclude_patterns)
HasExcludedPattern(href) == href = <<"/REGISTRO-candidato-nuevo-2024">>

\* href.rstrip("/").endswith("-trabajo")
EndsInTrabajo(href) == href = <<"/acme-consulting-trabajo", "/">>

\* lines 96-101: the path of an href of this site, <<>> for any other href
HrefPath(href) ==
  IF Len(href) >= 3 /\ SubSeq(href, 1, 2) = <<"https:", "//www.tecnoempleo.com">>
  THEN SubSeq(href, 3, Len(href))
  ELSE IF href # <<>> /\ StartsWithSlash(href) THEN href
  ELSE <<>>

\* "-" in href_path and len(href_path) > 15
PathLength(path) ==
  IF path = <<"/dev-1">> THEN 6
  ELSE IF path = <<"/ofertasdestacadasdelasemana">> THEN 28
  ELSE IF path = <<>> THEN 0
  ELSE MinPath + 1 + Len(path)

HasDash(path) == path # <<>> /\ path # <<"/ofertasdestacadasdelasemana">>

\* A hyperlink: its text after strip, the length of that text, its href
Hyperlink(text, len, href) == [text |-> text, len |-> len, href |-> href]

TecnoLinks ==
  { Hyperlink(<<"Python", "Developer">>, MinText, <<OfferPath>>),
    Hyperlink(<<"Programador", "Python", "Madrid">>, MaxText,
              <<"https:", "//www.tecnoempleo.com", OfferPath>>),
    Hyperlink(<<"Java", "Senior">>, MinText - 1, <<"/java-senior-barcelona-654321">>),
    Hyperlink(<<"Java", "Senior", "Barcelona">>, MaxText + 1, <<"/java-senior-barcelona-654321">>),
    Hyperlink(<<"Java", "Senior", "Barcelona">>, MaxText - 1, <<"/java-senior-barcelona-654321">>),
    Hyperlink(<<"Registro", "de", "candidatos">>, MinText + 5, <<"/REGISTRO-candidato-nuevo-2024">>),
    Hyperlink(<<"Acme", "Consulting", "SL">>, MinText + 3, <<"/acme-consulting-trabajo", "/">>),
    Hyperlink(<<"Python", "Developer">>, MinText, <<"https:", "//other.example", OfferPath>>),
    Hyperlink(<<"Desarrollador", "junior">>, MinText + 4, <<"/dev-1">>),
    Hyperlink(<<"Ofertas", "destacadas">>, MinText + 3, <<"/ofertasdestacadasdelasemana">>),
    Hyperlink(<<>>, 0, <<OfferPath>>) }

\* hyperlink number k of a run of different offers
GeneratedLink(k) ==
  Hyperlink(<<"Oferta", "de", "empleo", ToString(k)>>, MinText + 7,
            <<"/oferta-empleo-tecnologia-", ToString(k)>>)

LinkPages ==
  { body \o [k \in 1..run |-> GeneratedLink(k)] :
      body \in UNION {[1..n -> TecnoLinks] : n \in 0..MaxLinks},
      run \in {0} \cup ((HarvestLimit - 1)..(HarvestLimit + MaxBeyond)) }

\* lines 76-104 without the test of seen_urls
LooksLikeOffer(link) ==
  /\ link.text # <<>> /\ link.len >= MinText /\ link.len <= MaxText
  /\ ~HasExcludedPattern(link.href)
  /\ ~EndsInTrabajo(link.href)
  /\ HrefPath(link.href) # <<>>
  /\ HasDash(HrefPath(link.href)) /\ PathLength(HrefPath(link.href)) > MinPath

\* _extract_job_from_link, lines 116-152; href is kept to tell where an
\* offer comes from
OfferFromLink(link) ==
  [job_title |-> link.text,
   apply_link |-> urljoin(SITES_CONFIG["tecnoempleo"].base_url, link.href),
   href |-> link.href]

\* mutant: hyperlinks already seen are not passed over
HarvestNoSeen(links, seen_urls, found) ==
  [n \in DOMAIN SelectSeq(links, LooksLikeOffer) |->
     OfferFromLink(SelectSeq(links, LooksLikeOffer)[n])]

RECURSIVE Harvest(_, _, _)
\* lines 69-109: for link in all_links
Harvest(links, seen_urls, found) ==
  IF links = <<>> THEN found
  ELSE LET link == Head(links) IN
       IF link.href \notin seen_urls /\ LooksLikeOffer(link)
       THEN Harvest(Tail(links), seen_urls \cup {link.href},
                    Append(found, OfferFromLink(link)))
       ELSE Harvest(Tail(links), seen_urls, found)

\* TecnoempleoScraper.parse_job_listings: return jobs[:30]
ParseLinkListings(links) ==
  LET found == Harvest(links, {}, <<>>)
  IN  SubSeq(found, 1, IF Len(found) < HarvestLimit THEN Len(found) ELSE HarvestLimit)

CallParseLinkListings(links) ==
  /\ call = NoCall
  /\ call' = [op |-> "tecnoempleo.parse_job_listings", arg |-> links,
              result |-> ParseLinkListings(links)]
  /\ UNCHANGED <<scrape_logs, jobs, tasks, credentials, response, trail, faults>>

(* ---------------------------- get_search_url --------------------------- *)
\* keyword and location as the caller gives them
SearchKeywords == {"", "python", "python developer"}
SearchLocations == {"", "Madrid"}

\* urllib.parse.quote_plus on these values
quote_plus(s) == IF s = "python developer" THEN "python+developer" ELSE s

\* the base URLs an Indeed adapter can hold (indeed.py 33-38)
IndeedBaseUrls ==
  { <<"https:", "//www.indeed.com">>, <<"https:", "//es.indeed.com">>,
    <<"https:", "//mx.indeed.com">>, <<"https:", "//ar.indeed.com">> }

\* A search URL is written as the link it starts with and the pieces that
\* follow it: <<"?">>, <<"&">>, and <<name, value>> for name=value.
SearchUrl(link, query) == [link |-> link, query |-> query]

RECURSIVE JoinAmp(_)
\* "&".join(params)
JoinAmp(params) ==
  IF params = <<>> THEN <<>>
  ELSE IF Len(params) = 1 THEN params
  ELSE <<Head(params), <<"&">>>> \o JoinAmp(Tail(params))

\* params.append(f"{name}={quote_plus(value)}") under `if value:`
Param(name, value) == IF value # "" THEN << <<name, quote_plus(value)>> >> ELSE <<>>

\* mutant: the question mark is written whether or not there is a query
WithQueryAlways(link, params) == SearchUrl(link, << <<"?">> >> \o JoinAmp(params))

\* f"{SEARCH_URL}?{query}" if query else SEARCH_URL
WithQuery(link, params) ==
  IF params # <<>> THEN SearchUrl(link, << <<"?">> >> \o JoinAmp(params))
  ELSE SearchUrl(link, <<>>)

\* get_search_url of each adapter; base_url is self.config.base_url
GetSearchUrl(site, base_url, keyword, location) ==
  CASE site = "indeed" ->
         SearchUrl(base_url \o <<"/jobs">>,
                   << <<"?">> >> \o JoinAmp(Param("q", keyword) \o Param("l", location)
                                            \o << <<"sort", "date">> >>))
    [] site = "infojobs" ->
         WithQuery(<<"https:", "//www.infojobs.net", "/jobsearch/search-results/list.xhtml">>,
                   Param("q", keyword) \o Param("provinceIds", location))
    [] site = "linkedin" ->
         SearchUrl(<<"https:", "//www.linkedin.com", "/jobs/search">>,
                   << <<"?">> >> \o JoinAmp(Param("keywords", keyword)
                                            \o Param("location", location)
                                            \o << <<"f_TPR", "r604800">>, <<"sortBy", "R">> >>))
    [] site = "tecnoempleo" ->
         WithQuery(<<"https:", "//www.tecnoempleo.com", "/busqueda-empleo.php">>,
                   Param("te", keyword) \o Param("pr", location))
    [] site = "remoteok" ->
         SearchUrl(<<"https:", "//remoteok.com", "/api">>, <<>>)

\* the base URLs the adapter of a site can be holding when it is asked
AdapterBaseUrls(site) ==
  IF site = "indeed" THEN IndeedBaseUrls ELSE {SITES_CONFIG[site].base_url}

CallGetSearchUrl(site, base_url, keyword, location) ==
  /\ call = NoCall
  /\ call' = [op |-> "get_search_url",
              arg |-> [site |-> site, base_url |-> base_url,
                       keyword |-> keyword, location |-> location],
              result |-> GetSearchUrl(site, base_url, keyword, location)]
  /\ UNCHANGED <<scrape_logs, jobs, tasks, credentials, response, trail, faults>>

(* -------------------------------- login -------------------------------- *)
\* words looked for in the URL the login POST ends at
UrlMarkers == {"mi-cv", "feed", "mynetwork", "challenge", "checkpoint"}

\* what the site does during one login: whether the login page can be fetched,
\* and the POST raising or answering with a text and a final URL
LoginExchanges ==
  [page : BOOLEAN,
   post : {[raised |-> TRUE, logout_in_text |-> FALSE, url |-> {}]}
          \cup [raised : {FALSE}, logout_in_text : BOOLEAN, url : SUBSET UrlMarkers]]

LoginAnswer(ok, authenticated, requests) ==
  [ok |-> ok, authenticated |-> authenticated, requests |-> requests]

\* InfoJobsScraper._perform_login, lines 36-69
InfoJobsPerformLogin(has_credentials, x) ==
  IF ~has_credentials THEN LoginAnswer(FALSE, FALSE, 0)
  ELSE IF ~x.page THEN LoginAnswer(FALSE, FALSE, 1)
  ELSE IF x.post.raised THEN LoginAnswer(FALSE, FALSE, 2)
  ELSE IF x.post.logout_in_text \/ "mi-cv" \in x.post.url
       THEN LoginAnswer(TRUE, TRUE, 2)
  ELSE LoginAnswer(TRUE, FALSE, 2)

\* LinkedInScraper._perform_login, lines 52-106
LinkedInPerformLogin(has_credentials, x) ==
  IF ~has_credentials THEN LoginAnswer(FALSE, FALSE, 0)
  ELSE IF ~x.page THEN LoginAnswer(FALSE, FALSE, 1)
  ELSE IF x.post.raised THEN LoginAnswer(FALSE, FALSE, 2)
  ELSE IF "feed" \in x.post.url \/ "mynetwork" \in x.post.url
       THEN LoginAnswer(TRUE, TRUE, 2)
  ELSE LoginAnswer(FALSE, FALSE, 2)

\* BaseScraper.login, lines 96-104, for a site that requires authentication
Login(site, has_credentials, x) ==
  IF ~SITES_CONFIG[site].requires_auth THEN LoginAnswer(TRUE, FALSE, 0)
  ELSE IF ~has_credentials THEN LoginAnswer(FALSE, FALSE, 0)
  ELSE IF site = "infojobs" THEN InfoJobsPerformLogin(has_credentials, x)
  ELSE LinkedInPerformLogin(has_credentials, x)

CallLogin(site, has_credentials, x) ==
  /\ call = NoCall
  /\ call' = [op |-> "login",
              arg |-> [site |-> site, has_credentials |-> has_credentials, exchange |-> x],
              result |-> Login(site, has_credentials, x)]
  /\ UNCHANGED <<scrape_logs, jobs, tasks, credentials, response, trail, faults>>

(* ------------------------ adapter construction ------------------------- *)
MaxConstructions == 2    \* adapters constructed in one process

\* scraper_class() / IndeedScraper(country): the country matters to Indeed only
Constructions ==
  {[site |-> "indeed", country |-> c] : c \in {"es", "mx", "ar", "com"}}
  \cup {[site |-> s, country |-> ""] : s \in {"remoteok", "infojobs"}}

ConstructionRuns == UNION {[1..n -> Constructions] : n \in 1..MaxConstructions}

\* IndeedScraper._update_base_url, lines 33-39: self.config.base_url after it
UpdateBaseUrl(base_url, country) ==
  CASE country = "es" -> <<"https:", "//es.indeed.com">>
    [] country = "mx" -> <<"https:", "//mx.indeed.com">>
    [] country = "ar" -> <<"https:", "//ar.indeed.com">>
    [] OTHER          -> base_url

\* the base URLs held by SITES_CONFIG, the objects every adapter of a site
\* shares: self.config = SITES_CONFIG[site] is a reference, not a copy
ConfiguredBaseUrls == [s \in SCRAPERS |-> SITES_CONFIG[s].base_url]

\* __init__ of an adapter: SITES_CONFIG after it
Construct(config, c) ==
  IF c.site = "indeed"
  THEN [config EXCEPT !["indeed"] = UpdateBaseUrl(@, c.country)]
  ELSE config

RECURSIVE ConfigAfter(_, _)
ConfigAfter(config, run) ==
  IF run = <<>> THEN config
  ELSE ConfigAfter(Construct(config, Head(run)), Tail(run))

\* the constructions of a process, one after another: the configuration
\* after them and the base URL the adapter constructed last works with
ConstructAdapters(run) ==
  LET config == ConfigAfter(ConfiguredBaseUrls, run)
  IN  [config |-> config, base_url |-> config[run[Len(run)].site]]

CallConstructAdapters(run) ==
  /\ call = NoCall
  /\ call' = [op |-> "construct", arg |-> run, result |-> ConstructAdapters(run)]
  /\ UNCHANGED <<scrape_logs, jobs, tasks, credentials, response, trail, faults>>

(* ----------------------------- run_scrapers ---------------------------- *)
MaxSites == 2    \* names in the list given to run_scrapers

\* the site lists of the command line; "bogus" is no key of SCRAPERS
CliSiteLists ==
  UNION {[1..n -> {"remoteok", "indeed", "bogus"}] : n \in 1..MaxSites}

\* what happens at each position of the list: the adapter's constructor
\* raises, its scrape raises, its close raises, or nothing raises
CliOutcomes(sites) ==
  [DOMAIN sites -> {"ok", "constructor raised", "scrape raised", "close raised"}]

Event(ev, k) == [ev |-> ev, k |-> k]

\* line 169: if site_name != sites[-1]
MaySleep(sites, k) == sites[k] # sites[Len(sites)]

\* lines 156-175: one turn of `for site_name in sites`, as the events it causes
CliTurn(sites, outcome, k) ==
  IF sites[k] \notin SCRAPERS THEN <<Event("skip", k)>>
  ELSE IF outcome[k] = "constructor raised" THEN <<Event("error", k)>>
  ELSE IF outcome[k] = "scrape raised"
       THEN <<Event("construct", k), Event("scrape", k), Event("error", k)>>
  ELSE IF outcome[k] = "close raised"
       THEN <<Event("construct", k), Event("scrape", k), Event("extend", k),
              Event("close", k), Event("error", k)>>
  ELSE <<Event("construct", k), Event("scrape", k), Event("extend", k),
         Event("close", k)>>
       \o (IF MaySleep(sites, k) THEN <<Event("sleep", k)>> ELSE <<>>)

RECURSIVE RunScrapersFrom(_, _, _)
RunScrapersFrom(sites, outcome, k) ==
  IF k > Len(sites) THEN <<Event("return", k)>>
  ELSE CliTurn(sites, outcome, k) \o RunScrapersFrom(sites, outcome, k + 1)

\* run_scrapers(sites, keyword, location), lines 153-177
RunScrapers(sites, outcome) == RunScrapersFrom(sites, outcome, 1)

CallRunScrapers(sites, outcome) ==
  /\ call = NoCall
  /\ call' = [op |-> "run_scrapers", arg |-> [sites |-> sites, outcome |-> outcome],
              result |-> RunScrapers(sites, outcome)]
  /\ UNCHANGED <<scrape_logs, jobs, tasks, credentials, response, trail, faults>>

(* ------------------------------ get_stats ------------------------------ *)
MaxTagRows == 3     \* rows of table jobs that get_stats reads
TopTagsLimit == 15  \* [:15]

\* values of column jobs.tags, each written as tags.split(",") gives it:
\* "Python, react", "python , Go", "", "Go"
TagStrings ==
  { <<"Python", " react">>, <<"python ", " Go">>, <<"">>, <<"Go">> }

StatsInputs == UNION {[1..n -> TagStrings] : n \in 0..MaxTagRows}

\* tag_counts[tag] = tag_counts.get(tag, 0) + 1, the dict kept in insertion order
CountTag(tag_counts, tag) ==
  IF \E n \in DOMAIN tag_counts : tag_counts[n][1] = tag
  THEN [n \in DOMAIN tag_counts |->
          IF tag_counts[n][1] = tag THEN <<tag, tag_counts[n][2] + 1>>
          ELSE tag_counts[n]]
  ELSE Append(tag_counts, <<tag, 1>>)

RECURSIVE CountSegments(_, _)
\* lines 153-156: for tag in tags.split(","): tag = tag.strip(); if tag: ...
CountSegments(tag_counts, segments) ==
  IF segments = <<>> THEN tag_counts
  ELSE CountSegments(IF Strip(Head(segments)) # ""
                     THEN CountTag(tag_counts, Strip(Head(segments)))
                     ELSE tag_counts,
                     Tail(segments))

RECURSIVE TagCounts(_, _)
\* lines 150-156: for (tags,) in all_tags: if tags: ...
TagCounts(tag_counts, all_tags) ==
  IF all_tags = <<>> THEN tag_counts
  ELSE TagCounts(IF Head(all_tags) # <<"">>
                 THEN CountSegments(tag_counts, Head(all_tags))
                 ELSE tag_counts,
                 Tail(all_tags))

RECURSIVE SortedByCount(_)
\* sorted(tag_counts.items(), key=lambda x: x[1], reverse=True): stable
SortedByCount(items) ==
  IF items = <<>> THEN <<>>
  ELSE LET rest == SortedByCount(Tail(items))
           before == SelectSeq(rest, LAMBDA x : x[2] > Head(items)[2])
           after == SelectSeq(rest, LAMBDA x : x[2] <= Head(items)[2])
       IN before \o <<Head(items)>> \o after

\* line 158
TopTags(tag_counts) ==
  SubSeq(SortedByCount(tag_counts), 1,
         IF Len(tag_counts) < TopTagsLimit THEN Len(tag_counts) ELSE TopTagsLimit)

\* GET /api/stats, its top_tags
GetStats(all_tags) ==
  /\ call = NoCall
  /\ call' = [op |-> "get_stats", arg |-> all_tags,
              result |-> TopTags(TagCounts(<<>>, all_tags))]
  /\ UNCHANGED <<scrape_logs, jobs, tasks, credentials, response, trail, faults>>

(* --------------------------- specifications ---------------------------- *)
Requests == RawInputs \X Keywords \X Locations
Tasks == 1..MaxRuns

\* no run is waiting or executing
Idle == \A u \in DOMAIN tasks : tasks[u].pc \in {"done", "escaped"}

\* a request is handled once the run of the request before it has ended
SerialStartScrape(raw, keyword, location) ==
  /\ Idle
  /\ StartScrape(raw, keyword, location)

\* the service handling one request at a time: each accepted run is
\* executed to its end before the next request arrives
Next ==
  \/ \E r \in Requests : SerialStartScrape(r[1], r[2], r[3])
  \/ \E t \in Tasks : RunBegin(t)
  \/ \E t \in Tasks : Scrape(t)
  \/ \E t \in Tasks : HandleOffer(t)
  \/ \E t \in Tasks : CommitSource(t)
  \/ \E t \in Tasks : Finish(t)
  \/ \E t \in Tasks : Except(t)

Spec == Init /\ [][Next]_vars

\* the service with requests arriving at any time and its background tasks
\* interleaved
ConcurrentNext ==
  \/ \E r \in Requests : StartScrape(r[1], r[2], r[3])
  \/ \E t \in Tasks : RunBegin(t)
  \/ \E t \in Tasks : Scrape(t)
  \/ \E t \in Tasks : HandleOffer(t)
  \/ \E t \in Tasks : CommitSource(t)
  \/ \E t \in Tasks : Finish(t)
  \/ \E t \in Tasks : Except(t)

ConcurrentSpec == Init /\ [][ConcurrentNext]_vars

\* run_scrape called once more for a run id that already has a record
Reinvoke(id) ==
  /\ Len(tasks) < MaxRuns
  /\ id \in DOMAIN scrape_logs
  /\ tasks' = Append(tasks, NewTask(id, scrape_logs[id].sites,
                                    scrape_logs[id].keyword,
                                    scrape_logs[id].location))
  /\ UNCHANGED <<scrape_logs, jobs, credentials, call, response, trail, faults>>

\* the interleaved service, with run_scrape also called again for existing ids
ReinvokeNext ==
  \/ ConcurrentNext
  \/ \E id \in Tasks : Reinvoke(id)

ReinvokeSpec == Init /\ [][ReinvokeNext]_vars

\* one step of run_scrape execution t
TaskStep(t) ==
  \/ RunBegin(t)
  \/ Scrape(t)
  \/ HandleOffer(t)
  \/ CommitSource(t)
  \/ Finish(t)
  \/ Except(t)

\* the serial service, with the worker thread of every execution scheduled:
\* an execution that can take a step eventually takes one
FairSpec == Spec /\ \A t \in Tasks : WF_vars(TaskStep(t))

\* the functions of the adapters and of the statistics, called on their own
FunctionsNext ==
  \/ call = NoCall /\ \E all_tags \in StatsInputs : GetStats(all_tags)
  \/ call = NoCall /\ \E data \in Feeds, keyword \in FeedKeywords :
                        CallParseApiResponse(data, keyword)
  \/ call = NoCall /\ \E site \in MarkupSites : \E page \in Pages(site) \cup NodePages(site) :
                        CallParseJobListings(site, page)
  \/ call = NoCall /\ \E site \in MarkupSites, card \in Cards : CallExtractJob(site, card)
  \/ call = NoCall /\ \E site \in AuthSites, has_credentials \in BOOLEAN, x \in LoginExchanges :
                        CallLogin(site, has_credentials, x)
  \/ call = NoCall /\ \E site \in SCRAPERS : \E base_url \in AdapterBaseUrls(site) :
                        \E keyword \in SearchKeywords, location \in SearchLocations :
                          CallGetSearchUrl(site, base_url, keyword, location)
  \/ call = NoCall /\ \E links \in LinkPages : CallParseLinkListings(links)
  \/ call = NoCall /\ \E run \in ConstructionRuns : CallConstructAdapters(run)
  \/ call = NoCall /\ \E sites \in CliSiteLists : \E outcome \in CliOutcomes(sites) :
                        CallRunScrapers(sites, outcome)

FunctionsInit == Init /\ credentials = {}

FunctionsSpec == FunctionsInit /\ [][FunctionsNext]_vars

(* ------------------------------- claims -------------------------------- *)
Row(t) == scrape_logs[tasks[t].log_id]
RowAfter(t) == scrape_logs'[tasks[t].log_id]
\* run_scrape execution t returns in this step from the end of its site loop
Completes(t) ==
  /\ t \in DOMAIN tasks
  /\ tasks[t].pc = "loop"
  /\ tasks'[t].pc = "done"

EmptyAfterTrim(raw) == \A n \in DOMAIN raw : Strip(raw[n]) = ""
NamesUnknownSite(raw) ==
  \E n \in DOMAIN raw : Strip(raw[n]) # "" /\ Lower(Strip(raw[n])) \notin SCRAPERS

InvalidRequestRejected ==
  [][\A r \in Requests :
       ((EmptyAfterTrim(r[1]) \/ NamesUnknownSite(r[1])) /\ StartScrape(r[1], r[2], r[3]))
         => /\ response'.status = 400
            /\ scrape_logs' = scrape_logs
            /\ tasks' = tasks]_vars

\* a request was rejected after a run had been accepted
RejectedAfterAccepted ==
  /\ response.status = 400
  /\ Len(scrape_logs) = 1
  /\ Len(tasks) = 1

\* C3: the statuses written to a record are a prefix of pending, running,
\* then one of completed or failed
Lifecycles ==
  { <<"pending">>, <<"pending", "running">>,
    <<"pending", "running", "completed">>, <<"pending", "running", "failed">> }

StatusTrailIsLifecyclePrefix ==
  \A id \in DOMAIN scrape_logs :
    /\ trail[id] \in Lifecycles
    /\ scrape_logs[id].status = trail[id][Len(trail[id])]

\* the final commit raised after status had been set to completed, and the
\* handler recorded the run as failed
FailedAfterFinalCommitRaised ==
  \E id \in DOMAIN scrape_logs :
    /\ trail[id] = <<"pending", "running", "failed">>
    /\ scrape_logs[id].error_message = Msg(<<"commit error">>)

\* C4: completed_at is set exactly when status is completed or failed
CompletedAtIffTerminal ==
  \A id \in DOMAIN scrape_logs :
    (scrape_logs[id].completed_at # NullTime) <=> (scrape_logs[id].status \in Terminal)

\* one record failed and one still running
FailedAndRunningRecords ==
  \E a, b \in DOMAIN scrape_logs :
    /\ scrape_logs[a].status = "failed"
    /\ scrape_logs[a].completed_at # NullTime
    /\ scrape_logs[b].status = "running"

\* C5: a run whose only failures are scrape calls that raised reaches the end
\* of its site list having called every source, and ends completed with a
\* non-null error summary (jobs_found 0 when every source raised); the handler
\* of line 245 is entered only by an error outside the per-source try
SourceFailureNeverFailsRun ==
  [][\A t \in DOMAIN tasks :
       /\ (tasks'[t].pc = "except" => tasks'[t].fault)
       /\ (Completes(t) /\ tasks[t].raised > 0 /\ ~tasks[t].fault)
            => /\ RowAfter(t).status = "completed"
               /\ ~RowAfter(t).error_message.isnull
               /\ tasks[t].calls = Len(tasks[t].sites)
               /\ (tasks[t].raised = Len(tasks[t].sites)
                     => RowAfter(t).jobs_found = 0)]_vars

\* a two-source run in which both scrape calls raised has completed
AllSourcesRaisedCompleted ==
  \E id \in DOMAIN scrape_logs :
    /\ scrape_logs[id].status = "completed"
    /\ scrape_logs[id].jobs_found = 0
    /\ scrape_logs[id].error_message =
         Msg(<< <<"infojobs", "scrape error">>, <<"remoteok", "scrape error">> >>)

\* C6: of the run_scrape executions for one run id, at most one calls an adapter
AtMostOneExtractionPerRun ==
  \A t, u \in DOMAIN tasks :
    (t # u /\ tasks[t].log_id = tasks[u].log_id)
      => ~(tasks[t].calls > 0 /\ tasks[u].calls > 0)

\* C7: a record whose status is completed or failed never changes again
TerminalRecordImmutable ==
  [][\A id \in DOMAIN scrape_logs :
       scrape_logs[id].status \in Terminal => scrape_logs'[id] = scrape_logs[id]]_vars

\* C8: a run that ends completed records as jobs_found the number of rows it
\* persisted
JobsFoundEqualsPersisted ==
  [][\A t \in DOMAIN tasks :
       (Completes(t) /\ RowAfter(t).status = "completed")
         => RowAfter(t).jobs_found = tasks[t].persisted]_vars

\* C9: a completed run in which a source failed to authenticate or to fetch
\* has an error summary that names that source
NamesSite(msg, site) ==
  /\ ~msg.isnull
  /\ \E n \in DOMAIN msg.parts : msg.parts[n][1] = site

AuthOrFetchFailureRecorded ==
  [][\A t \in DOMAIN tasks :
       (Completes(t) /\ RowAfter(t).status = "completed")
         => \A i \in tasks[t].softFailed :
              NamesSite(RowAfter(t).error_message, tasks[t].sites[i])]_vars

\* C10: each accepted request has created exactly one record, and until its
\* background task starts the record is pending with jobs_found 0 and no
\* adapter called; the id returned is that record's id
AcceptedRunIsPendingUntilTaskStarts ==
  /\ Len(scrape_logs) = Len(tasks)
  /\ (response.status = 200 => response.log_id = Len(scrape_logs))
  /\ \A t \in DOMAIN tasks :
       /\ tasks[t].log_id = t
       /\ tasks[t].pc = "queued"
            => /\ scrape_logs[t].status = "pending"
               /\ scrape_logs[t].jobs_found = 0
               /\ scrape_logs[t].completed_at = NullTime
               /\ scrape_logs[t].error_message.isnull
               /\ tasks[t].calls = 0

\* the id of a second run has been returned, its task not yet started, after
\* the first run has called an adapter and ended
SecondRunAcceptedAfterFirst ==
  /\ response = [status |-> 200, log_id |-> 2]
  /\ Len(tasks) = 2
  /\ tasks[2].pc = "queued"
  /\ tasks[1].calls > 0
  /\ tasks[1].pc = "done"

\* run_scrape execution t leaves in this step, by returning or by an exception
Leaves(t) ==
  /\ t \in DOMAIN tasks
  /\ tasks[t].pc \in {"queued", "loop", "except"}
  /\ tasks'[t].pc \in {"done", "escaped"}

\* C11: an execution that met an error outside the per-source try leaves its
\* record failed, with that error as error_message and completed_at set
ErrorOutsideSourceTryFailsRun ==
  [][\A t \in DOMAIN tasks :
       (Leaves(t) /\ (tasks[t].fault \/ tasks'[t].pc = "escaped"))
         => /\ RowAfter(t).status = "failed"
            /\ RowAfter(t).error_message = Msg(<<tasks[t].exc>>)
            /\ RowAfter(t).completed_at # NullTime]_vars

\* C12: no run_scrape execution is left by an exception
NoErrorEscapes ==
  \A t \in DOMAIN tasks : tasks[t].pc # "escaped"

\* C13: every execution that has started ends: its record reaches completed or
\* failed (or the execution is left by an exception, which is C12's case)
EveryStartedRunEnds ==
  \A t \in Tasks :
    (t \in DOMAIN tasks /\ Active(t))
      ~> (t \in DOMAIN tasks /\ (Row(t).status \in Terminal \/ tasks[t].pc = "escaped"))

\* C14: with runs interleaved, the jobs table holds at most one row for each
\* apply_link
AtMostOneRowPerLink ==
  \A l \in Links : Cardinality({n \in DOMAIN jobs : jobs[n].apply_link = l}) <= 1

\* C15: get_stats counts tags that differ only in letter case under one key:
\* no two keys of the result are equal up to case, and "Python, react",
\* "python , Go", "" give Python:2, react:1, Go:1
TagsFoldedUnderFirstSpelling ==
  call.op = "get_stats"
    => /\ \A m, n \in DOMAIN call.result :
            m # n => Lower(call.result[m][1]) # Lower(call.result[n][1])
       /\ call.arg = << <<"Python", " react">>, <<"python ", " Go">>, <<"">> >>
            => call.result = << <<"Python", 2>>, <<"react", 1>>, <<"Go", 1>> >>

\* the first FeedLimit of a sequence
Truncated(seq) ==
  SubSeq(seq, 1, IF Len(seq) < FeedLimit THEN Len(seq) ELSE FeedLimit)

\* C16, as stated: the offers returned are those of the entries that are not
\* metadata, have a title and, under a keyword, hold it in title, company or
\* tags, in feed order, cut at 50
MatchesInAField(item, keyword) ==
  \E field \in {item.position, item.company, item.tags} :
    Contains(LowerText(field), LowerText(keyword))

FeedOffersByField ==
  call.op = "_parse_api_response"
    => LET wanted == SelectSeq(call.arg.data, LAMBDA item :
                       /\ ~item.legal
                       /\ item.position # <<>>
                       /\ call.arg.keyword # <<>> => MatchesInAField(item, call.arg.keyword))
       IN  call.result = Truncated([n \in DOMAIN wanted |-> ExtractFeedJob(wanted[n])])

\* C16, amended: the offers returned are those of the entries that are not
\* metadata, have a title, are extracted without an error and, under a
\* keyword, hold it case-insensitively in the text "title company tags" (with
\* N/A for a missing company or no tags), in feed order, cut at 50; one
\* metadata entry and 3 offers of which 1 matches give 1 offer
SearchableText(item) ==
  item.position \o (IF item.company = <<>> THEN NA ELSE item.company)
                \o (IF item.tags = <<>> THEN NA ELSE JoinTags(item.tags))

FeedOffersByJoinedText ==
  call.op = "_parse_api_response"
    => LET wanted == SelectSeq(call.arg.data, LAMBDA item :
                       /\ ~item.legal
                       /\ item.position # <<>>
                       /\ item.tags = <<>> \/ item.tags_are_strings
                       /\ call.arg.keyword # <<>>
                            => Contains(LowerText(SearchableText(item)),
                                        LowerText(call.arg.keyword)))
       IN  /\ Len(call.result) = (IF Len(wanted) < FeedLimit THEN Len(wanted) ELSE FeedLimit)
           /\ \A n \in DOMAIN call.result :
                /\ call.result[n].job_title = wanted[n].position
                /\ call.result[n].company = (IF wanted[n].company = <<>> THEN NA
                                             ELSE wanted[n].company)
           /\ (call.arg = [data |-> <<MetaItem, GoDev, GoDev, PythonDev>>,
                           keyword |-> <<"python">>]
                 => Len(call.result) = 1)

\* a feed with more than 50 matching entries was cut at 50 under a keyword
\* spelled in another case than the titles
FeedCutAtLimit ==
  /\ call.op = "_parse_api_response"
  /\ call.arg.keyword = <<"python">>
  /\ Len(call.arg.data) > FeedLimit + 1
  /\ Head(call.arg.data) = MetaItem
  /\ Len(call.result) = FeedLimit

\* C17: parse_job_listings returns the offers of the nodes of the first
\* selector, in the fixed order, that matches at least one node, and nothing
\* when no selector matches
FirstMatchingSelectorUsed ==
  call.op = "parse_job_listings"
    => LET page == call.arg.page
           matching == {k \in DOMAIN page : page[k] # <<>>}
       IN  IF matching = {} THEN call.result = <<>>
           ELSE LET first == CHOOSE k \in matching : \A j \in matching : k <= j
                    offers == [n \in DOMAIN page[first] |->
                                 ExtractJob(call.arg.site, page[first][n])]
                IN  call.result = SelectSeq(offers, LAMBDA job : ~job.none)

\* selector 1 matched no node, selector 2 matched two nodes that yield no
\* offer, selector 3 matched a node that would: nothing was returned
LaterSelectorNotConsulted ==
  /\ call.op = "parse_job_listings"
  /\ call.arg.page[1] = <<>>
  /\ Len(call.arg.page[2]) = 2
  /\ \A n \in DOMAIN call.arg.page[2] : call.arg.page[2][n].title = <<>>
  /\ \E n \in DOMAIN call.arg.page[3] : call.arg.page[3][n].title # <<>>
  /\ call.result = <<>>

\* C18: in every markup adapter a link path that begins with "/" becomes the
\* base URL followed by that path, and an absolute http(s) link is kept as it
\* is, LinkedIn removing its query string
RelativePaths == { <<"/jobs/123">>, <<"/jobs/123", "?from=serp">> }
AbsoluteLinks ==
  { <<"https:", "//jobs.example", "/view/9">>,
    <<"https:", "//jobs.example", "/view/9", "?trk=abc">> }

LinkNormalized ==
  (call.op = "_extract_job" /\ ~call.result.none /\ call.arg.card.anchor)
    => LET href == call.arg.card.href
           site == call.arg.site
       IN  /\ href \in RelativePaths
                => call.result.apply_link = SITES_CONFIG[site].base_url \o href
           /\ (href \in AbsoluteLinks /\ site # "linkedin")
                => call.result.apply_link = href
           /\ (href \in AbsoluteLinks /\ site = "linkedin")
                => call.result.apply_link = <<"https:", "//jobs.example", "/view/9">>

\* LinkedIn has dropped the tracking query of an absolute link, and Indeed has
\* resolved a relative one
TrackingQueryStripped ==
  /\ call.op = "_extract_job"
  /\ \/ /\ call.arg.site = "linkedin"
        /\ call.arg.card.href = <<"https:", "//jobs.example", "/view/9", "?trk=abc">>
        /\ ~call.result.none
        /\ call.result.apply_link = <<"https:", "//jobs.example", "/view/9">>
     \/ /\ call.arg.site = "indeed"
        /\ call.arg.card.href = <<"/jobs/123">>
        /\ ~call.result.none
        /\ call.result.apply_link = <<"https:", "//www.indeed.com", "/jobs/123">>

\* C19: every offer an adapter returns carries an absolute URL as apply_link,
\* never the placeholder "N/A", an empty link or a relative path
EmittedOffers ==
  IF call.op = "_extract_job" /\ ~call.result.none THEN {call.result}
  ELSE IF call.op \in {"parse_job_listings", "_parse_api_response"}
       THEN {call.result[k] : k \in DOMAIN call.result}
       ELSE {}

ApplyLinkAlwaysAbsolute ==
  \A job \in EmittedOffers : IsAbsoluteUrl(job.apply_link)

\* C20: within one run the adapters are called one at a time in the order of
\* the list: the sources called so far are the first sources of the list, and
\* a call is made only when every offer of the source before it has been
\* handled and its commit is over
IsPrefix(s, list) == Len(s) <= Len(list) /\ s = SubSeq(list, 1, Len(s))

SourcesInvokedInListedOrder ==
  [][\A t \in DOMAIN tasks' :
       /\ IsPrefix(tasks'[t].invoked, tasks'[t].sites)
       /\ (t \in DOMAIN tasks /\ tasks'[t].invoked # tasks[t].invoked)
            => /\ Len(tasks'[t].invoked) = Len(tasks[t].invoked) + 1
               /\ tasks[t].offers = <<>>
               /\ tasks[t].pending = <<>>
               /\ tasks[t].pc = "loop"]_vars

\* a two-source run has called both adapters, and offers of the first one were
\* stored before the second call
BothSourcesInvoked ==
  \E t \in DOMAIN tasks :
    /\ tasks[t].sites = <<"infojobs", "remoteok">>
    /\ tasks[t].invoked = <<"infojobs", "remoteok">>
    /\ tasks[t].pc = "offers"
    /\ tasks[t].persisted > 0

\* C21: between the end of one source's invocation and the start of the next
\* one's the coordinator waits the inter-source delay, whether the earlier
\* source succeeded or raised, also in lists where a name repeats
ScrapeAt(trace) == {n \in DOMAIN trace : trace[n].ev = "scrape"}

DelayBetweenSources ==
  call.op = "run_scrapers"
    => LET trace == call.result IN
       \A m, n \in ScrapeAt(trace) :
         m < n => \E d \in (m + 1)..(n - 1) : trace[d].ev = "sleep"

\* C22: a completed run has a null error_message exactly when none of its
\* sources produced an error (an exception in its scrape call or in the commit
\* of its offers, or a failed login or fetch); otherwise the summary has one
\* entry for each failing source, in the order in which they were processed
FailingTurns(task) ==
  {task.failedAt[n] : n \in DOMAIN task.failedAt} \cup task.softFailed

ErrorSummaryListsFailingSources ==
  [][\A t \in DOMAIN tasks :
       (Completes(t) /\ RowAfter(t).status = "completed")
         => LET failing == FailingTurns(tasks[t])
                msg == RowAfter(t).error_message
            IN  /\ msg.isnull <=> failing = {}
                /\ ~msg.isnull
                     => /\ Len(msg.parts) = Cardinality(failing)
                        /\ \A n \in DOMAIN msg.parts :
                             /\ \E i \in failing : msg.parts[n][1] = tasks[t].sites[i]
                             /\ Cardinality({i \in failing :
                                               \E m \in 1..n : msg.parts[m][1] = tasks[t].sites[i]}) >= n]_vars

\* C23: login of an adapter that requires authentication fails without any
\* network exchange when there are no credentials, fails when the answer does
\* not match the site's success signature, fails on a challenge or
\* verification redirect, and succeeds only when the signature is matched
SuccessSignature(site, post) ==
  /\ ~post.raised
  /\ IF site = "infojobs" THEN post.logout_in_text \/ "mi-cv" \in post.url
     ELSE "feed" \in post.url \/ "mynetwork" \in post.url

ChallengeRedirect(post) ==
  ~post.raised /\ ("challenge" \in post.url \/ "checkpoint" \in post.url)

LoginSucceedsOnlyOnSignature ==
  call.op = "login"
    => LET x == call.arg.exchange
           matched == call.arg.has_credentials /\ x.page
                      /\ SuccessSignature(call.arg.site, x.post)
       IN  /\ ~call.arg.has_credentials
                => ~call.result.ok /\ call.result.requests = 0
           /\ call.result.ok => matched
           /\ ~matched => ~call.result.ok
           /\ (ChallengeRedirect(x.post) /\ ~SuccessSignature(call.arg.site, x.post))
                => ~call.result.ok

\* C24: when an adapter that requires authentication fails to log in, its
\* scrape call returns the empty list without fetching the search URL or
\* parsing a listing, and the run goes on to call every later source
LoginFailureSkipsFetch ==
  [][\A t \in DOMAIN tasks :
       /\ \A i \in tasks'[t].authFailed :
            i \notin tasks'[t].fetched /\ i \notin tasks'[t].parsed
       /\ tasks'[t].authFailed \ tasks[t].authFailed # {}
            => /\ tasks'[t].offers = <<>>
               /\ tasks'[t].pc = "offers"
               /\ SITES_CONFIG[tasks[t].sites[tasks[t].i]].requires_auth
       /\ (Completes(t) /\ tasks[t].authFailed # {})
            => tasks[t].invoked = tasks[t].sites]_vars

\* the first source of a run failed to log in and the second one has been
\* called and has returned offers
SourceAfterFailedLoginInvoked ==
  \E t \in DOMAIN tasks :
    /\ tasks[t].sites = <<"infojobs", "remoteok">>
    /\ tasks[t].authFailed = {1}
    /\ tasks[t].fetched = {2}
    /\ tasks[t].offers # <<>>

\* C25: the search URL of every adapter carries the keyword parameter exactly
\* when the keyword is not empty and the location parameter exactly when the
\* location is not empty, and is a well-formed absolute URL for every input
KeywordParam == [indeed |-> "q", infojobs |-> "q", linkedin |-> "keywords",
                 tecnoempleo |-> "te", remoteok |-> "q"]
LocationParam == [indeed |-> "l", infojobs |-> "provinceIds", linkedin |-> "location",
                  tecnoempleo |-> "pr", remoteok |-> "l"]

HasParam(url, name) == \E n \in DOMAIN url.query : url.query[n][1] = name

\* an absolute link, then nothing or "?" and name=value pieces with one "&"
\* between every two of them
WellFormedUrl(url) ==
  /\ IsAbsoluteUrl(url.link)
  /\ LET q == url.query IN
     q # <<>>
       => /\ Len(q) % 2 = 0
          /\ \A n \in DOMAIN q :
               /\ n = 1 => q[n] = <<"?">>
               /\ (n > 1 /\ n % 2 = 1) => q[n] = <<"&">>
               /\ n % 2 = 0 => Len(q[n]) = 2 /\ q[n][2] # ""

ParamsFollowInputs(sites) ==
  (call.op = "get_search_url" /\ call.arg.site \in sites)
    => /\ HasParam(call.result, KeywordParam[call.arg.site]) <=> call.arg.keyword # ""
       /\ HasParam(call.result, LocationParam[call.arg.site]) <=> call.arg.location # ""
       /\ WellFormedUrl(call.result)

Kept(nodes) == {n \in DOMAIN nodes : nodes[n].title # <<>> /\ ~nodes[n].raises}

NodesHandledIndependently ==
  (call.op = "parse_job_listings" /\ call.arg.page[1] # <<>>)
    => LET nodes == call.arg.page[1]
           kept == Kept(nodes)
           rank(n) == Cardinality({m \in kept : m <= n})
       IN  /\ Len(call.result) = Cardinality(kept)
           /\ \A n \in kept :
                LET job == call.result[rank(n)] IN
                /\ job.job_title = nodes[n].title
                /\ job.company = IF nodes[n].company.elem THEN nodes[n].company.text
                                 ELSE NA
                /\ ~nodes[n].anchor => job.apply_link = NA

\* a node whose reading raised and a node without a title were dropped, and
\* the node between them, with nothing but a title, gave its offer
BareNodeKeptBetweenDrops ==
  /\ call.op = "parse_job_listings"
  /\ Len(call.arg.page[1]) = 3
  /\ call.arg.page[1][1].raises
  /\ call.arg.page[1][2].title = <<"Go", "Dev">>
  /\ call.arg.page[1][3].title = <<>>
  /\ Len(call.result) = 1
  /\ call.result[1].company = NA

\* C27: the link-harvesting adapter returns at most 30 offers, each made from
\* a hyperlink whose text has 15 to 80 characters and whose href has no
\* excluded pattern and does not end in "-trabajo", and no two of them made
\* from the same href ...
FromQualifyingLinks ==
  LET links == call.arg
      found == call.result
  IN  /\ Len(found) <= HarvestLimit
      /\ \A k \in DOMAIN found :
           \E n \in DOMAIN links :
             /\ links[n].href = found[k].href
             /\ links[n].text = found[k].job_title
             /\ links[n].len >= MinText /\ links[n].len <= MaxText
             /\ ~HasExcludedPattern(links[n].href)
             /\ ~EndsInTrabajo(links[n].href)
             /\ found[k].apply_link =
                  SITES_CONFIG["tecnoempleo"].base_url \o HrefPath(links[n].href)
      /\ \A j, k \in DOMAIN found : j # k => found[j].href # found[k].href

HarvestedFromDistinctHrefs ==
  call.op = "tecnoempleo.parse_job_listings" => FromQualifyingLinks

\* ... and no two of them with the same apply_link
HarvestedWithDistinctApplyLinks ==
  call.op = "tecnoempleo.parse_job_listings"
    => /\ FromQualifyingLinks
       /\ \A j, k \in DOMAIN call.result :
            j # k => call.result[j].apply_link # call.result[k].apply_link

\* a page with more offers than the limit, the first of them twice, was cut
\* at the limit
HarvestCutAtLimit ==
  /\ call.op = "tecnoempleo.parse_job_listings"
  /\ Len(call.arg) = HarvestLimit + 3
  /\ call.arg[1] = call.arg[2]
  /\ call.arg[1].href = <<OfferPath>>
  /\ Len(call.result) = HarvestLimit

\* C28: every offer a scrape call has returned, and every row a run has
\* stored, has as source the display name of the adapter that produced it,
\* never the placeholder and never another adapter's name
SourceIsAdapterName ==
  /\ \A t \in DOMAIN tasks :
       tasks[t].pc = "offers"
         => LET name == SITES_CONFIG[tasks[t].sites[tasks[t].i]].name IN
            /\ \A n \in DOMAIN tasks[t].offers : tasks[t].offers[n].source = name
            /\ \A n \in DOMAIN tasks[t].pending : tasks[t].pending[n].source = name
  /\ \A n \in DOMAIN jobs :
       /\ jobs[n].source # "N/A"
       /\ \E t \in DOMAIN tasks :
            \E k \in DOMAIN tasks[t].invoked :
              jobs[n].source = SITES_CONFIG[tasks[t].invoked[k]].name

\* the second source of a run, RemoteOK, has had its offer stored under its name
RowStoredUnderAdapterName ==
  /\ Len(jobs) = 1
  /\ jobs[1].source = "RemoteOK"
  /\ \E t \in DOMAIN tasks : tasks[t].invoked = <<"infojobs", "remoteok">>

\* C29: the base URL an Indeed adapter works with depends only on the country
\* it was constructed for, whatever was constructed before it, and
\* constructing an adapter leaves the configuration of every other site as
\* it was
BaseUrlFor(c) ==
  IF c.site = "indeed"
  THEN UpdateBaseUrl(SITES_CONFIG["indeed"].base_url, c.country)
  ELSE SITES_CONFIG[c.site].base_url

BaseUrlDependsOnOwnCountryOnly ==
  call.op = "construct"
    => LET run == call.arg
           last == run[Len(run)]
       IN  /\ call.result.base_url = BaseUrlFor(last)
           /\ \A s \in SCRAPERS \ {"indeed"} :
                call.result.config[s] = SITES_CONFIG[s].base_url

\* C30: every adapter the command-line coordinator constructs is closed exactly
\* once before the coordinator moves on to the next source or returns, also
\* when scrape raises
ClosesOf(trace, k) == {n \in DOMAIN trace : trace[n] = Event("close", k)}

ConstructedAdapterClosedOnce ==
  call.op = "run_scrapers"
    => LET trace == call.result IN
       \A n \in DOMAIN trace :
         trace[n].ev = "construct"
           => /\ Cardinality(ClosesOf(trace, trace[n].k)) = 1
              /\ \A m \in ClosesOf(trace, trace[n].k) : m > n
====
